---- MODULE Spec2Model ----
(***************************************************************************)
(* Model of qtm/packet.py: the QRTPacket constructor (header and component *)
(* directory scan) and the component accessors, over a byte buffer.        *)
(* Buffers are sequences of bytes 0..255; buffer offsets are 0-based as in *)
(* the source, so byte k of the buffer is d[k + 1].                        *)
(***************************************************************************)
EXTENDS Integers, Sequences, FiniteSets, TLC

VARIABLES
    data,          \* QRTPacket.data: the buffer handed to the constructor
    valid,         \* the buffer before truncation is a well-formed packet
    cut,           \* number of trailing bytes removed from that buffer
    state,         \* "new" | "constructed" | "struct.error" | "ValueError"
    timestamp,     \* QRTPacket.timestamp
    framenumber,   \* QRTPacket.framenumber
    components,    \* QRTPacket.components: dict kind -> payload offset
    scan,          \* offsets taken by `position` during the directory scan
    ret,           \* outcome of the latest accessor call
    RTAnalogChannel_format,        \* class attribute RTAnalogChannel.format
    RTAnalogDeviceSamples_format,  \* RTAnalogDeviceSamples.format
    threads        \* the accessor calls running concurrently, per thread

vars == <<data, valid, cut, state, timestamp, framenumber, components, scan,
          ret, RTAnalogChannel_format, RTAnalogDeviceSamples_format, threads>>

(***************************************************************************)
(* QRTComponentType                                                        *)
(***************************************************************************)
Component3d == 1
Component3dNoLabels == 2
ComponentAnalog == 3
ComponentForce == 4
Component6d == 5
Component6dEuler == 6
Component2d == 7
Component2dLin == 8
Component3dRes == 9
Component3dNoLabelsRes == 10
Component6dRes == 11
Component6dEulerRes == 12
ComponentAnalogSingle == 13
ComponentImage == 14
ComponentForceSingle == 15
ComponentGazeVector == 16
ComponentTimecode == 17
ComponentSkeleton == 18

QRTComponentType == Component3d..ComponentSkeleton

(***************************************************************************)
(* struct formats ("<" : little-endian, no padding), as field code lists   *)
(***************************************************************************)
RTDataQRTPacket == <<"q", "I", "I">>
RTComponentData == <<"I", "I">>
RT2DComponent == <<"I", "h", "h">>
RT2DCamera == <<"i", "c">>
RT2DMarker == <<"i", "i", "h", "h">>
RT3DComponent == <<"I", "h", "h">>
RT3DMarkerPosition == <<"f", "f", "f">>
RT3DMarkerPositionResidual == <<"f", "f", "f", "f">>
RT3DMarkerPositionNoLabel == <<"f", "f", "f", "i">>
RT3DMarkerPositionNoLabelResidual == <<"f", "f", "f", "i", "f">>
RT6DComponent == <<"i", "h", "h">>
RT6DBodyPosition == <<"f", "f", "f">>
RT6DBodyRotation == <<"f", "f", "f", "f", "f", "f", "f", "f", "f">>
RT6DBodyResidual == <<"f">>
RT6DBodyEuler == <<"f", "f", "f">>
RTAnalogComponent == <<"i">>
RTAnalogDevice == <<"i", "i", "i">>
RTSampleNumber == <<"i">>
RTAnalogDeviceSingle == <<"i", "i">>
RTForceComponent == <<"i">>
RTForcePlate == <<"i", "i", "i">>
RTForcePlateSingle == <<"i">>
RTForce == <<"f", "f", "f", "f", "f", "f", "f", "f", "f">>
RTImageComponent == <<"i">>
RTSkeletonComponent == <<"i">>
RTJointCount == <<"i">>
RTJointId == <<"i">>
RTJointPosition == <<"f", "f", "f">>
RTJointRotation == <<"f", "f", "f", "f">>
RTImage == <<"i", "i", "i", "i", "f", "f", "f", "f", "i">>

\* "<%df" % n : n floats
FloatArray(n) == [k \in 1..n |-> "f"]

\* TLC's integers are 32-bit where Python's are unbounded.  An in-stream
\* count beyond Far in size enters offset arithmetic as Far: every buffer
\* here is far shorter than Far bytes, so a read at such an offset fails
\* just as it does at the true offset.
Far == 1048576

(***************************************************************************)
(* struct.Struct: sizes and little-endian field decoding                   *)
(***************************************************************************)
FieldSize(c) ==
    CASE c = "q" -> 8
      [] c \in {"I", "i", "f"} -> 4
      [] c = "h" -> 2
      [] c = "c" -> 1

RECURSIVE SizeUpTo(_, _)
SizeUpTo(fmt, n) ==
    IF n = 0 THEN 0 ELSE SizeUpTo(fmt, n - 1) + FieldSize(fmt[n])

\* struct.Struct(fmt).size
StructSize(fmt) == SizeUpTo(fmt, Len(fmt))

\* signed 32-bit little-endian integer at offset p
I32(d, p) ==
    d[p + 1] + 256 * d[p + 2] + 65536 * d[p + 3]
        + 16777216 * (IF d[p + 4] >= 128 THEN d[p + 4] - 256 ELSE d[p + 4])

\* unsigned 32-bit little-endian integer at offset p
U32(d, p) == d[p + 1] + 256 * d[p + 2] + 65536 * d[p + 3] + 16777216 * d[p + 4]

\* signed 16-bit little-endian integer at offset p
I16(d, p) ==
    d[p + 1] + 256 * (IF d[p + 2] >= 128 THEN d[p + 2] - 256 ELSE d[p + 2])

\* One field.  A float is kept as its 32-bit pattern, a 64-bit integer as
\* its two 32-bit words (low, high), a char as its byte.
Field(c, d, p) ==
    CASE c = "q" -> <<I32(d, p), I32(d, p + 4)>>
      [] c = "I" -> U32(d, p)
      [] c \in {"i", "f"} -> I32(d, p)
      [] c = "h" -> I16(d, p)
      [] c = "c" -> d[p + 1]

\* struct.Struct(fmt).unpack_from(d, offset): a negative offset counts from
\* the end of the buffer; the read fails (struct.error) unless the whole
\* record lies inside the buffer.
UnpackOffset(d, offset) == IF offset < 0 THEN offset + Len(d) ELSE offset

UnpackOk(fmt, d, offset) ==
    /\ UnpackOffset(d, offset) >= 0
    /\ Len(d) - UnpackOffset(d, offset) >= StructSize(fmt)

UnpackFrom(fmt, d, offset) ==
    [k \in 1..Len(fmt) |->
        Field(fmt[k], d, UnpackOffset(d, offset) + SizeUpTo(fmt, k - 1))]

\* the buffer offsets a successful unpack_from reads
UnpackBytes(fmt, d, offset) ==
    UnpackOffset(d, offset)..(UnpackOffset(d, offset) + StructSize(fmt) - 1)

\* QRTPacket._get_exact: (position + size, record), or struct.error
GetExact(component_type, d, position) ==
    IF UnpackOk(component_type, d, position)
    THEN [ok |-> TRUE,
          position |-> position + StructSize(component_type),
          value |-> UnpackFrom(component_type, d, position),
          bytes |-> UnpackBytes(component_type, d, position)]
    ELSE [ok |-> FALSE, position |-> position, value |-> <<>>, bytes |-> {}]

\* QRTPacket._get_tuple: as _get_exact, the record's one field is the tuple
GetTuple(component_type, d, position) ==
    IF UnpackOk(component_type, d, position)
    THEN [ok |-> TRUE,
          position |-> position + StructSize(component_type),
          value |-> <<UnpackFrom(component_type, d, position)>>,
          bytes |-> UnpackBytes(component_type, d, position)]
    ELSE [ok |-> FALSE, position |-> position, value |-> <<>>, bytes |-> {}]

\* _get_tuple with the format "<%df" % n.  A format of more floats than the
\* buffer has bytes unpacks from no offset of it.
GetFloats(n, d, position) ==
    IF n > Len(d)
    THEN [ok |-> FALSE, position |-> position, value |-> <<>>, bytes |-> {}]
    ELSE GetTuple(FloatArray(n), d, position)

(***************************************************************************)
(* QRTPacket.__init__                                                      *)
(***************************************************************************)
\* DictSet as `components.setdefault(kind, offset)`: the first entry of a
\* kind stays
DictSetFirst(dict, kind, offset) ==
    [k \in (DOMAIN dict) \cup {kind} |->
        IF k \in DOMAIN dict THEN dict[k] ELSE offset]

\* dict assignment  components[kind] = offset
DictSet(dict, kind, offset) ==
    [k \in (DOMAIN dict) \cup {kind} |-> IF k = kind THEN offset ELSE dict[k]]

EmptyDict == [k \in {} |-> 0]

\* The loop over range(component_count): n entries remain, `position` is
\* the scan cursor, comps the directory so far, trace the cursor's history.
RECURSIVE ScanDirectory(_, _, _, _, _)
ScanDirectory(d, n, position, comps, trace) ==
    IF n <= 0
    THEN [status |-> "constructed", components |-> comps, trace |-> trace]
    ELSE LET e == GetExact(RTComponentData, d, position)
             c_size == e.value[1]
             c_type == e.value[2]
         IN  IF ~e.ok
             THEN [status |-> "struct.error", components |-> comps,
                   trace |-> trace]
             ELSE IF c_type \notin QRTComponentType
             THEN [status |-> "ValueError", components |-> comps,
                   trace |-> trace]
             ELSE ScanDirectory(d, n - 1, position + c_size,
                                DictSet(comps, c_type,
                                        position + StructSize(RTComponentData)),
                                Append(trace, position + c_size))

NewPacket(d) ==
    LET h == GetExact(RTDataQRTPacket, d, 0)
    IN  IF ~h.ok
        THEN [status |-> "struct.error", timestamp |-> <<0, 0>>,
              framenumber |-> 0, components |-> EmptyDict, trace |-> <<>>]
        ELSE LET s == ScanDirectory(d, h.value[3], StructSize(RTDataQRTPacket),
                                    EmptyDict,
                                    <<StructSize(RTDataQRTPacket)>>)
             IN  [status |-> s.status, timestamp |-> h.value[1],
                  framenumber |-> h.value[2], components |-> s.components,
                  trace |-> s.trace]

(***************************************************************************)
(* Component decoders.  A decoder's running state is a record:             *)
(*   ok     no read has failed so far (a failed read raises struct.error)  *)
(*   pos    component_position                                             *)
(*   out    the `components` list being built                              *)
(*   inner  the nested list being built (marker_list, force_list, joints)  *)
(*   bytes  the buffer offsets read so far                                 *)
(*   trace  the values component_position has taken, in order              *)
(*   format the float count n of the "<%df" format its record class's      *)
(*          format attribute holds, as {n}: what the latest assignment     *)
(*          left there; {} for a decoder that uses no such attribute or    *)
(*          when none was assigned yet                                     *)
(***************************************************************************)
Begin(position) ==
    [ok |-> TRUE, pos |-> position, out |-> <<>>, inner |-> <<>>,
     bytes |-> {}, trace |-> <<position>>, format |-> {}]

\* a read raised: the exception leaves the decoder where it is
Raise(st) == [st EXCEPT !.ok = FALSE]

\* component_position, record = _get_exact(...)  succeeded with result g
Took(st, g) ==
    [st EXCEPT !.pos = g.position, !.bytes = @ \cup g.bytes,
               !.trace = Append(@, g.position)]

\* components.append(v)
Emit(st, v) == [st EXCEPT !.out = Append(@, v)]

\* the nested list's append
EmitInner(st, v) == [st EXCEPT !.inner = Append(@, v)]

\* for _ in range(n): position, rec = _get_exact(fmt, ...); inner.append(rec)
RECURSIVE RepeatExact(_, _, _, _)
RepeatExact(fmt, d, n, st) ==
    IF n <= 0 \/ ~st.ok THEN st
    ELSE LET g == GetExact(fmt, d, st.pos)
         IN  IF ~g.ok THEN Raise(st)
             ELSE RepeatExact(fmt, d, n - 1, EmitInner(Took(st, g), g.value))

\* RT2DMarker.format.size * camera_info.marker_count
SkipMarkers(marker_count) ==
    StructSize(RT2DMarker)
        * (IF marker_count > Far THEN Far
           ELSE IF marker_count < -Far THEN -Far ELSE marker_count)

\* QRTPacket._get_2d_markers: one camera, then the remaining ones.
\* index is {} for None and {i} for a requested camera i.
Camera2d(d, camera, index, st) ==
    LET c == GetExact(RT2DCamera, d, st.pos)
        marker_count == c.value[1]
        s1 == Took(st, c)
    IN  IF ~c.ok THEN Raise(st)
        ELSE IF index = {} \/ camera \in index
        THEN LET m == RepeatExact(RT2DMarker, d, marker_count,
                                  [s1 EXCEPT !.inner = <<>>])
             IN  Emit(m, m.inner)
        ELSE [s1 EXCEPT
                !.pos = @ + SkipMarkers(marker_count),
                !.trace = Append(@, s1.pos + SkipMarkers(marker_count))]

RECURSIVE Cameras2d(_, _, _, _, _)
Cameras2d(d, camera, camera_count, index, st) ==
    IF camera >= camera_count \/ ~st.ok THEN st
    ELSE Cameras2d(d, camera + 1, camera_count, index,
                   Camera2d(d, camera, index, st))

Get2dMarkers(d, component_info, component_position, index) ==
    Cameras2d(d, 0, component_info[1], index, Begin(component_position))

\* QRTPacket._get_3d_markers
RECURSIVE Markers3d(_, _, _, _)
Markers3d(type_, d, n, st) ==
    IF n <= 0 \/ ~st.ok THEN st
    ELSE LET g == GetExact(type_, d, st.pos)
         IN  IF ~g.ok THEN Raise(st)
             ELSE Markers3d(type_, d, n - 1, Emit(Took(st, g), g.value))

Get3dMarkers(type_, component_info, d, component_position) ==
    Markers3d(type_, d, component_info[1], Begin(component_position))

\* QRTPacket.get_analog: the channel loop of one device, RTAnalogChannel's
\* format being the one the class attribute holds when _get_tuple reads it
RECURSIVE AnalogChannels(_, _, _, _, _)
AnalogChannels(d, n, device, sample_number, st) ==
    IF n <= 0 \/ ~st.ok THEN st
    ELSE LET g == GetFloats(CHOOSE f \in st.format : TRUE, d, st.pos)
         IN  IF ~g.ok THEN Raise(st)
             ELSE AnalogChannels(d, n - 1, device, sample_number,
                      Emit(Took(st, g), <<device, sample_number, g.value>>))

\* AnalogDevice with the test `device.sample_count >= 0`
AnalogDeviceFromZero(d, st) ==
    LET dev == GetExact(RTAnalogDevice, d, st.pos)
        s1 == Took(st, dev)
        sn == GetExact(RTSampleNumber, d, s1.pos)
    IN  IF ~dev.ok THEN Raise(st)
        ELSE IF dev.value[3] >= 0
        THEN IF ~sn.ok THEN Raise(s1)
             ELSE AnalogChannels(d, dev.value[2], dev.value, sn.value,
                      [Took(s1, sn) EXCEPT !.format = {dev.value[3]}])
        ELSE s1

\* AnalogDevice with the Struct built again only when the one at hand is
\* narrower than sample_count floats
AnalogDeviceKeepWider(d, st) ==
    LET dev == GetExact(RTAnalogDevice, d, st.pos)
        s1 == Took(st, dev)
        sn == GetExact(RTSampleNumber, d, s1.pos)
    IN  IF ~dev.ok THEN Raise(st)
        ELSE IF dev.value[3] > 0
        THEN IF ~sn.ok THEN Raise(s1)
             ELSE AnalogChannels(d, dev.value[2], dev.value, sn.value,
                      [Took(s1, sn) EXCEPT !.format =
                           IF \E f \in st.format : f >= dev.value[3]
                           THEN st.format ELSE {dev.value[3]}])
        ELSE s1

AnalogDevice(d, st) ==
    LET dev == GetExact(RTAnalogDevice, d, st.pos)
        s1 == Took(st, dev)
        sn == GetExact(RTSampleNumber, d, s1.pos)
    IN  IF ~dev.ok THEN Raise(st)
        ELSE IF dev.value[3] > 0
        THEN IF ~sn.ok THEN Raise(s1)
             ELSE AnalogChannels(d, dev.value[2], dev.value, sn.value,
                      [Took(s1, sn) EXCEPT !.format = {dev.value[3]}])
        ELSE s1

RECURSIVE AnalogDevices(_, _, _)
AnalogDevices(d, n, st) ==
    IF n <= 0 \/ ~st.ok THEN st
    ELSE AnalogDevices(d, n - 1, AnalogDevice(d, st))

\* format: RTAnalogChannel.format at entry, what the latest assignment left
GetAnalog(component_info, d, component_position, format) ==
    AnalogDevices(d, component_info[1],
                  [Begin(component_position) EXCEPT !.format = format])

\* QRTPacket.get_analog_single.  "<%df" % channel_count is no struct format
\* when channel_count is negative: struct.Struct raises struct.error.
AnalogSingleDevice(d, st) ==
    LET dev == GetExact(RTAnalogDeviceSingle, d, st.pos)
        s1 == Took(st, dev)
        s2 == [s1 EXCEPT !.format = {dev.value[2]}]
        smp == GetFloats(CHOOSE f \in s2.format : TRUE, d, s2.pos)
    IN  IF ~dev.ok THEN Raise(st)
        ELSE IF dev.value[2] < 0 THEN Raise(s1)
        ELSE IF ~smp.ok THEN Raise(s2)
        ELSE Emit(Took(s2, smp), <<dev.value, smp.value>>)

RECURSIVE AnalogSingleDevices(_, _, _)
AnalogSingleDevices(d, n, st) ==
    IF n <= 0 \/ ~st.ok THEN st
    ELSE AnalogSingleDevices(d, n - 1, AnalogSingleDevice(d, st))

\* format: RTAnalogDeviceSamples.format at entry
GetAnalogSingle(component_info, d, component_position, format) ==
    AnalogSingleDevices(d, component_info[1],
                        [Begin(component_position) EXCEPT !.format = format])

\* QRTPacket.get_force
ForcePlate(d, st) ==
    LET plate == GetExact(RTForcePlate, d, st.pos)
        f == RepeatExact(RTForce, d, plate.value[2],
                         [Took(st, plate) EXCEPT !.inner = <<>>])
    IN  IF ~plate.ok THEN Raise(st)
        ELSE IF ~f.ok THEN f
        ELSE Emit(f, <<plate.value, f.inner>>)

RECURSIVE ForcePlates(_, _, _)
ForcePlates(d, n, st) ==
    IF n <= 0 \/ ~st.ok THEN st
    ELSE ForcePlates(d, n - 1, ForcePlate(d, st))

GetForce(component_info, d, component_position) ==
    ForcePlates(d, component_info[1], Begin(component_position))

\* One pass of a loop body that reads the records of formats fmts one after
\* the other with _get_exact (tuple[k] tells whether read k goes through
\* _get_tuple) and appends the tuple of them.
RECURSIVE ReadRecords(_, _, _, _, _, _)
ReadRecords(fmts, tuple, d, k, st, acc) ==
    IF k > Len(fmts) THEN Emit(st, acc)
    ELSE LET g == IF tuple[k] THEN GetTuple(fmts[k], d, st.pos)
                  ELSE GetExact(fmts[k], d, st.pos)
         IN  IF ~g.ok THEN Raise(st)
             ELSE ReadRecords(fmts, tuple, d, k + 1, Took(st, g),
                              Append(acc, g.value))

RECURSIVE RepeatRecords(_, _, _, _, _)
RepeatRecords(fmts, tuple, d, n, st) ==
    IF n <= 0 \/ ~st.ok THEN st
    ELSE RepeatRecords(fmts, tuple, d, n - 1,
                       ReadRecords(fmts, tuple, d, 1, st, <<>>))

\* QRTPacket.get_force_single
GetForceSingle(component_info, d, component_position) ==
    RepeatRecords(<<RTForcePlateSingle, RTForce>>, <<FALSE, FALSE>>, d,
                  component_info[1], Begin(component_position))

\* QRTPacket.get_6d
Get6d(component_info, d, component_position) ==
    RepeatRecords(<<RT6DBodyPosition, RT6DBodyRotation>>, <<FALSE, TRUE>>, d,
                  component_info[1], Begin(component_position))

\* QRTPacket.get_6d_residual
Get6dResidual(component_info, d, component_position) ==
    RepeatRecords(<<RT6DBodyPosition, RT6DBodyRotation, RT6DBodyResidual>>,
                  <<FALSE, TRUE, FALSE>>, d,
                  component_info[1], Begin(component_position))

\* QRTPacket.get_6d_euler
Get6dEuler(component_info, d, component_position) ==
    RepeatRecords(<<RT6DBodyPosition, RT6DBodyEuler>>, <<FALSE, FALSE>>, d,
                  component_info[1], Begin(component_position))

\* QRTPacket.get_6d_euler_residual
Get6dEulerResidual(component_info, d, component_position) ==
    RepeatRecords(<<RT6DBodyPosition, RT6DBodyEuler, RT6DBodyResidual>>,
                  <<FALSE, FALSE, FALSE>>, d,
                  component_info[1], Begin(component_position))

\* data[start:-1]: the offsets a Python slice with stop -1 covers
SliceStart(d, start) ==
    IF start < 0
    THEN (IF start + Len(d) < 0 THEN 0 ELSE start + Len(d))
    ELSE (IF start > Len(d) THEN Len(d) ELSE start)

SliceToLast(d, start) ==
    IF Len(d) = 0 THEN {} ELSE SliceStart(d, start)..(Len(d) - 2)

\* QRTPacket.get_image
RECURSIVE Images(_, _, _)
Images(d, n, st) ==
    IF n <= 0 \/ ~st.ok THEN st
    ELSE LET g == GetExact(RTImage, d, st.pos)
             s1 == Took(st, g)
             cut_ == SliceToLast(d, s1.pos)
         IN  IF ~g.ok THEN Raise(st)
             ELSE Images(d, n - 1,
                      Emit([s1 EXCEPT !.bytes = @ \cup cut_],
                           <<g.value, [k \in 1..Cardinality(cut_) |->
                                          d[SliceStart(d, s1.pos) + k]]>>))

GetImage(component_info, d, component_position) ==
    Images(d, component_info[1], Begin(component_position))

\* QRTPacket.get_skeletons: the joints of one skeleton
RECURSIVE Joints(_, _, _)
Joints(d, n, st) ==
    IF n <= 0 \/ ~st.ok THEN st
    ELSE LET j == GetExact(RTJointId, d, st.pos)
             p == GetExact(RTJointPosition, d, j.position)
             r == GetExact(RTJointRotation, d, p.position)
         IN  IF ~j.ok THEN Raise(st)
             ELSE IF ~p.ok THEN Raise(Took(st, j))
             ELSE IF ~r.ok THEN Raise(Took(Took(st, j), p))
             ELSE Joints(d, n - 1,
                         EmitInner(Took(Took(Took(st, j), p), r),
                                   <<j.value[1], p.value, r.value>>))

Skeleton(d, st) ==
    LET info == GetExact(RTJointCount, d, st.pos)
        js == Joints(d, info.value[1], [Took(st, info) EXCEPT !.inner = <<>>])
    IN  IF ~info.ok THEN Raise(st)
        ELSE IF ~js.ok THEN js
        ELSE Emit(js, js.inner)

RECURSIVE Skeletons(_, _, _)
Skeletons(d, n, st) ==
    IF n <= 0 \/ ~st.ok THEN st
    ELSE Skeletons(d, n - 1, Skeleton(d, st))

GetSkeletons(component_info, d, component_position) ==
    Skeletons(d, component_info[1], Begin(component_position))

(***************************************************************************)
(* ComponentGetter: the decorator around every accessor                    *)
(***************************************************************************)
\* the accessors: the kinds some get_* method is decorated for
Accessors == QRTComponentType \ {ComponentGazeVector, ComponentTimecode}

\* base_component of the decorator, per kind
BaseComponent(kind) ==
    CASE kind \in {Component3d, Component3dRes, Component3dNoLabels,
                   Component3dNoLabelsRes} -> RT3DComponent
      [] kind \in {Component2d, Component2dLin} -> RT2DComponent
      [] kind \in {Component6d, Component6dRes, Component6dEuler,
                   Component6dEulerRes} -> RT6DComponent
      [] kind \in {ComponentAnalog, ComponentAnalogSingle} -> RTAnalogComponent
      [] kind \in {ComponentForce, ComponentForceSingle} -> RTForceComponent
      [] kind = ComponentImage -> RTImageComponent
      [] kind = ComponentSkeleton -> RTSkeletonComponent

\* the decorated function, per kind
Function(kind, component_info, d, component_position, index, formats) ==
    CASE kind = Component3d ->
           Get3dMarkers(RT3DMarkerPosition, component_info, d,
                        component_position)
      [] kind = Component3dRes ->
           Get3dMarkers(RT3DMarkerPositionResidual, component_info, d,
                        component_position)
      [] kind = Component3dNoLabels ->
           Get3dMarkers(RT3DMarkerPositionNoLabel, component_info, d,
                        component_position)
      [] kind = Component3dNoLabelsRes ->
           Get3dMarkers(RT3DMarkerPositionNoLabelResidual, component_info, d,
                        component_position)
      [] kind \in {Component2d, Component2dLin} ->
           Get2dMarkers(d, component_info, component_position, index)
      [] kind = Component6d -> Get6d(component_info, d, component_position)
      [] kind = Component6dRes ->
           Get6dResidual(component_info, d, component_position)
      [] kind = Component6dEuler ->
           Get6dEuler(component_info, d, component_position)
      [] kind = Component6dEulerRes ->
           Get6dEulerResidual(component_info, d, component_position)
      [] kind = ComponentAnalog ->
           GetAnalog(component_info, d, component_position, formats[1])
      [] kind = ComponentAnalogSingle ->
           GetAnalogSingle(component_info, d, component_position,
                           formats[2])
      [] kind = ComponentForce ->
           GetForce(component_info, d, component_position)
      [] kind = ComponentForceSingle ->
           GetForceSingle(component_info, d, component_position)
      [] kind = ComponentImage ->
           GetImage(component_info, d, component_position)
      [] kind = ComponentSkeleton ->
           GetSkeletons(component_info, d, component_position)

\* What a call leaves behind.  status is "None" (the accessor returned
\* None), "ok" (it returned (info, payload)) or "struct.error" (it raised);
\* end is component_position when the decoder stopped, bytes the buffer
\* offsets it read, trace the values component_position took.
Outcome(kind, index, status, info, st) ==
    [kind |-> kind, index |-> index, status |-> status, info |-> info,
     payload |-> IF status = "ok" THEN st.out ELSE <<>>,
     end |-> st.pos, bytes |-> st.bytes, trace |-> st.trace,
     format |-> st.format]

\* Wrapper with the lookup `components.get(component_enum, RTDataQRTPacket.size
\* + RTComponentData.size)` and the test for None after the header decode: an
\* absent kind has the first component's header decoded before None comes back
WrapperDecodeFirst(comps, d, kind, index, formats) ==
    LET position == IF kind \in DOMAIN comps THEN comps[kind]
                    ELSE StructSize(RTDataQRTPacket)
                           + StructSize(RTComponentData)
        h == GetExact(BaseComponent(kind), d, position)
        st == Function(kind, h.value, d, h.position, index, formats)
    IN  IF ~h.ok
        THEN Outcome(kind, index, "struct.error", <<>>, Begin(position))
        ELSE IF kind \notin DOMAIN comps
        THEN [kind |-> kind, index |-> index, status |-> "None",
              info |-> <<>>, payload |-> <<>>, end |-> 0, bytes |-> h.bytes,
              trace |-> <<>>, format |-> {}]
        ELSE Outcome(kind, index, IF st.ok THEN "ok" ELSE "struct.error",
                     h.value,
                     [st EXCEPT !.bytes = @ \cup h.bytes,
                                !.trace = <<comps[kind]>> \o @])

\* wrapper(*args, **kwargs) of ComponentGetter.__call__
Wrapper(comps, d, kind, index, formats) ==
    IF kind \notin DOMAIN comps
    THEN [kind |-> kind, index |-> index, status |-> "None", info |-> <<>>,
          payload |-> <<>>, end |-> 0, bytes |-> {}, trace |-> <<>>,
          format |-> {}]
    ELSE LET h == GetExact(BaseComponent(kind), d, comps[kind])
             st == Function(kind, h.value, d, h.position, index, formats)
         IN  IF ~h.ok
             THEN Outcome(kind, index, "struct.error", <<>>,
                          Begin(comps[kind]))
             ELSE Outcome(kind, index,
                          IF st.ok THEN "ok" ELSE "struct.error", h.value,
                          [st EXCEPT !.bytes = @ \cup h.bytes,
                                     !.trace = <<comps[kind]>> \o @])

(***************************************************************************)
(* Input buffers: packets laid out the way the struct formats above read   *)
(* them, with in-stream counts drawn from bounded ranges.                  *)
(***************************************************************************)
\* largest top-level count (markers, bodies, cameras, devices, plates,
\* images, skeletons) of a generated component
MaxCount == 2
\* largest nested count (markers of a camera, channels and samples of a
\* device, forces of a plate, joints of a skeleton, bytes of an image)
MaxInner == 2

\* "<i" / "<I" / "<f" (bit pattern): 4 bytes, little-endian two's complement
LE32(n) ==
    LET m == IF n < 0 THEN n + 2147483647 + 1 ELSE n
    IN  <<m % 256, (m \div 256) % 256, (m \div 65536) % 256,
          (m \div 16777216) + (IF n < 0 THEN 128 ELSE 0)>>

\* "<h": 2 bytes, little-endian two's complement
LE16(n) ==
    LET m == IF n < 0 THEN n + 65536 ELSE n
    IN  <<m % 256, m \div 256>>

RECURSIVE FlattenTo(_, _)
FlattenTo(ss, n) == IF n = 0 THEN <<>> ELSE FlattenTo(ss, n - 1) \o ss[n]

Flatten(ss) == FlattenTo(ss, Len(ss))

\* w consecutive 4-byte fields, distinct per record number k
Words(k, w) == Flatten([j \in 1..w |-> LE32(16 * k + j)])

Records(n, w) == Flatten([k \in 1..n |-> Words(k, w)])

\* the count of element k (from 0) of a nested list: the two values of
\* profile in turn
Nth(profile, k) == profile[(k % 2) + 1]

Hdr3(n) == LE32(n) \o LE16(1) \o LE16(2)

Camera(k, m) ==
    LE32(m) \o <<k + 1>>
        \o Flatten([j \in 1..m |->
                      LE32(32 * k + j) \o LE32(j) \o LE16(k) \o LE16(-j)])

Pay2d(n, profile) ==
    Hdr3(n) \o Flatten([k \in 1..n |-> Camera(k - 1, Nth(profile, k - 1))])

Device(k, c, s) ==
    LE32(k) \o LE32(c) \o LE32(s)
        \o (IF s > 0 THEN LE32(100 + k) \o Records(c, s) ELSE <<>>)

PayAnalog(n, profile) ==
    LE32(n) \o Flatten([k \in 1..n |->
                           Device(k, Nth(profile, k - 1), Nth(profile, k))])

PayAnalogSingle(n, profile) ==
    LE32(n) \o Flatten([k \in 1..n |->
                           LE32(k) \o LE32(Nth(profile, k - 1))
                               \o Words(k, Nth(profile, k - 1))])

PayForce(n, profile) ==
    LE32(n) \o Flatten([k \in 1..n |->
                           LE32(k) \o LE32(Nth(profile, k - 1)) \o LE32(7)
                               \o Records(Nth(profile, k - 1), 9)])

PayForceSingle(n) ==
    LE32(n) \o Flatten([k \in 1..n |-> LE32(k) \o Words(k, 9)])

Image(k, size) ==
    LE32(k) \o LE32(2) \o LE32(4) \o LE32(3) \o Words(k, 4) \o LE32(size)
        \o [j \in 1..size |-> 16 * k + j]

PayImage(n, profile) ==
    LE32(n) \o Flatten([k \in 1..n |-> Image(k, Nth(profile, k - 1))])

PaySkeleton(n, profile) ==
    LE32(n) \o Flatten([k \in 1..n |->
                           LE32(Nth(profile, k - 1))
                               \o Records(Nth(profile, k - 1), 8)])

\* one component: its tag, its payload and whether all its counts are >= 0
Comp(type, payload, wf) == [type |-> type, payload |-> payload, wf |-> wf]

Counts == 0..MaxCount
SignedCounts == -1..MaxCount
Inner == -1..MaxInner
\* the nested counts of a component of n elements: one value when n = 1
Profiles(n) ==
    IF n <= 0 THEN {<<0, 0>>}
    ELSE IF n = 1 THEN {<<a, 0>> : a \in Inner}
    ELSE Inner \X Inner

ProfileWf(n, profile) ==
    /\ n >= 0
    /\ n >= 1 => profile[1] >= 0
    /\ n >= 2 => profile[2] >= 0

Components ==
    {Comp(Component3d, Hdr3(n) \o Records(n, 3), TRUE) : n \in Counts}
    \cup {Comp(Component3dRes, Hdr3(n) \o Records(n, 4), TRUE) : n \in Counts}
    \cup {Comp(Component3dNoLabels, Hdr3(n) \o Records(n, 4), TRUE) :
            n \in Counts}
    \cup {Comp(Component3dNoLabelsRes, Hdr3(n) \o Records(n, 5), TRUE) :
            n \in Counts}
    \cup {Comp(Component6d, Hdr3(n) \o Records(n, 12), n >= 0) :
            n \in SignedCounts}
    \cup {Comp(Component6dRes, Hdr3(n) \o Records(n, 13), n >= 0) :
            n \in SignedCounts}
    \cup {Comp(Component6dEuler, Hdr3(n) \o Records(n, 6), n >= 0) :
            n \in SignedCounts}
    \cup {Comp(Component6dEulerRes, Hdr3(n) \o Records(n, 7), n >= 0) :
            n \in SignedCounts}
    \cup UNION {{Comp(t, Pay2d(n, p), ProfileWf(n, p)) :
                    p \in Profiles(n), t \in {Component2d, Component2dLin}} :
                n \in Counts}
    \cup UNION {{Comp(ComponentAnalog, PayAnalog(n, p),
                      n >= 0 /\ (n >= 1 => p[1] >= 0 /\ p[2] >= 0)) :
                    p \in IF n <= 0 THEN {<<0, 0>>} ELSE Inner \X Inner} :
                n \in SignedCounts}
    \cup UNION {{Comp(ComponentAnalogSingle, PayAnalogSingle(n, p),
                      ProfileWf(n, p)) : p \in Profiles(n)} :
                n \in SignedCounts}
    \cup UNION {{Comp(ComponentForce, PayForce(n, p), ProfileWf(n, p)) :
                    p \in Profiles(n)} : n \in SignedCounts}
    \cup {Comp(ComponentForceSingle, PayForceSingle(n), n >= 0) :
            n \in SignedCounts}
    \cup UNION {{Comp(ComponentImage, PayImage(n, p), ProfileWf(n, p)) :
                    p \in Profiles(n)} : n \in SignedCounts}
    \cup UNION {{Comp(ComponentSkeleton, PaySkeleton(n, p), ProfileWf(n, p)) :
                    p \in Profiles(n)} : n \in SignedCounts}
    \cup {Comp(ComponentGazeVector, <<>>, TRUE),
          Comp(ComponentTimecode, <<>>, TRUE)}

\* the components put before or after the one under study
Timecode == Comp(ComponentTimecode, <<>>, TRUE)
OneMarker == Comp(Component3d, Hdr3(1) \o Records(1, 3), TRUE)

\* a packet's components and the position of the one under study
Shapes ==
    {[comps |-> <<>>, focus |-> 0]}
    \cup {[comps |-> <<c>>, focus |-> 1] : c \in Components}
    \cup {[comps |-> <<c, OneMarker>>, focus |-> 1] : c \in Components}
    \cup {[comps |-> <<Timecode, c>>, focus |-> 2] : c \in Components}
    \cup {[comps |-> <<OneMarker, c, Timecode>>, focus |-> 2] :
            c \in Components}

\* How a buffer departs from the well-formed packet of its shape:
\*   "valid"  not at all
\*   "cut"    its last byte is missing
\*   "short"  the payload of the component under study lacks its last byte
\*            (its counts tell of more than its span holds)
\*   "over"   the last directory entry declares one byte more than there is
\*   "zero"   the first directory entry declares the size 0
Variations == {"valid", "cut", "short", "over", "zero"}

Payload(shape, v, k) ==
    LET p == shape.comps[k].payload
    IN  IF v = "short" /\ k = shape.focus THEN SubSeq(p, 1, Len(p) - 1)
        ELSE p

DeclaredSize(shape, v, k) ==
    IF v = "zero" /\ k = 1 THEN 0
    ELSE 8 + Len(Payload(shape, v, k))
           + (IF v = "over" /\ k = Len(shape.comps) THEN 1 ELSE 0)

Bytes(shape, v) ==
    LE32(5) \o LE32(0) \o LE32(9) \o LE32(Len(shape.comps))
        \o Flatten([k \in 1..Len(shape.comps) |->
                      LE32(DeclaredSize(shape, v, k))
                          \o LE32(shape.comps[k].type)
                          \o Payload(shape, v, k)])

Buffer(shape, v) ==
    IF v = "cut" THEN SubSeq(Bytes(shape, v), 1, Len(Bytes(shape, v)) - 1)
    ELSE Bytes(shape, v)

WellFormed(shape, v) ==
    /\ v \in {"valid", "cut"}
    /\ \A k \in 1..Len(shape.comps) : shape.comps[k].wf

\* "short" and "zero" need a component to act on
Inputs ==
    {[shape |-> s, v |-> v] : s \in Shapes, v \in Variations} \
        {[shape |-> [comps |-> <<>>, focus |-> 0], v |-> v] :
            v \in {"short", "zero", "over"}}

(***************************************************************************)
(* The state machine: a buffer arrives, QRTPacket(data) is constructed,    *)
(* accessors are called in any order.                                      *)
(***************************************************************************)
NoCall ==
    [kind |-> 0, index |-> {}, status |-> "none", info |-> <<>>,
     payload |-> <<>>, end |-> 0, bytes |-> {}, trace |-> <<>>,
     format |-> {}]

\* no thread is running: the packet is decoded by its one caller
NoThreads == <<>>

Init ==
    \E in \in Inputs :
        /\ data = Buffer(in.shape, in.v)
        /\ valid = WellFormed(in.shape, in.v)
        /\ cut = IF in.v = "cut" THEN 1 ELSE 0
        /\ state = "new"
        /\ timestamp = <<0, 0>>
        /\ framenumber = 0
        /\ components = EmptyDict
        /\ scan = <<>>
        /\ ret = NoCall
        /\ RTAnalogChannel_format = {}
        /\ RTAnalogDeviceSamples_format = {}
        /\ threads = NoThreads

\* packet = QRTPacket(data)
QRTPacket ==
    /\ state = "new"
    /\ LET p == NewPacket(data)
       IN  /\ state' = p.status
           /\ timestamp' = p.timestamp
           /\ framenumber' = p.framenumber
           /\ components' = p.components
           /\ scan' = p.trace
    /\ UNCHANGED <<data, valid, cut, ret, RTAnalogChannel_format,
                   RTAnalogDeviceSamples_format, threads>>

\* the indexes a caller asks get_2d_markers for: None or a camera number
Indexes == {{}} \cup {{i} : i \in 0..MaxCount}

\* the record classes' format attributes (RTAnalogChannel.format,
\* RTAnalogDeviceSamples.format) as an accessor finds them
ClassFormats == <<RTAnalogChannel_format, RTAnalogDeviceSamples_format>>

\* packet.get_*(): one accessor call on the constructed packet
Call(kind, index) ==
    /\ state = "constructed"
    /\ ret' = Wrapper(components, data, kind, index, ClassFormats)
    /\ RTAnalogChannel_format' =
           IF kind = ComponentAnalog /\ ret'.format # {}
           THEN ret'.format ELSE RTAnalogChannel_format
    /\ RTAnalogDeviceSamples_format' =
           IF kind = ComponentAnalogSingle /\ ret'.format # {}
           THEN ret'.format ELSE RTAnalogDeviceSamples_format
    /\ UNCHANGED <<data, valid, cut, state, timestamp, framenumber,
                   components, scan, threads>>

get_analog == Call(ComponentAnalog, {})
get_analog_single == Call(ComponentAnalogSingle, {})
get_force == Call(ComponentForce, {})
get_force_single == Call(ComponentForceSingle, {})
get_6d == Call(Component6d, {})
get_6d_residual == Call(Component6dRes, {})
get_6d_euler == Call(Component6dEuler, {})
get_6d_euler_residual == Call(Component6dEulerRes, {})
get_image == Call(ComponentImage, {})
get_3d_markers == Call(Component3d, {})
get_3d_markers_residual == Call(Component3dRes, {})
get_3d_markers_no_label == Call(Component3dNoLabels, {})
get_3d_markers_no_label_residual == Call(Component3dNoLabelsRes, {})
get_2d_markers == \E index \in Indexes : Call(Component2d, index)
get_2d_markers_linearized == \E index \in Indexes : Call(Component2dLin, index)
get_skeletons == Call(ComponentSkeleton, {})

Next ==
    \/ QRTPacket
    \/ get_analog
    \/ get_analog_single
    \/ get_force
    \/ get_force_single
    \/ get_6d
    \/ get_6d_residual
    \/ get_6d_euler
    \/ get_6d_euler_residual
    \/ get_image
    \/ get_3d_markers
    \/ get_3d_markers_residual
    \/ get_3d_markers_no_label
    \/ get_3d_markers_no_label_residual
    \/ get_2d_markers
    \/ get_2d_markers_linearized
    \/ get_skeletons

Spec == Init /\ [][Next]_vars

(***************************************************************************)
(* Two threads, each decoding a packet of its own (the same bytes or not)  *)
(* with get_analog or get_analog_single.  A thread's locals are its own;   *)
(* RTAnalogChannel.format and RTAnalogDeviceSamples.format are attributes  *)
(* of the record classes, one per process.  The interpreter may switch     *)
(* threads between any two bytecodes, so each step below holds at most one *)
(* access to a class attribute.                                            *)
(***************************************************************************)
Threads == {1, 2}

MTKinds == {ComponentAnalog, ComponentAnalogSingle}

\* well-formed packets of one analog or analog-single component whose
\* devices have channels and samples
MTPackets ==
    {Bytes([comps |-> <<Comp(ComponentAnalog, PayAnalog(n, p), TRUE)>>,
            focus |-> 1], "valid") :
        n \in 1..MaxCount, p \in (1..MaxInner) \X (1..MaxInner)}
    \cup {Bytes([comps |-> <<Comp(ComponentAnalogSingle,
                                  PayAnalogSingle(n, p), TRUE)>>,
                 focus |-> 1], "valid") :
             n \in 1..MaxCount, p \in (1..MaxInner) \X (1..MaxInner)}

\* a thread about to call packet.get_analog() / packet.get_analog_single()
\* on QRTPacket(d).  pc is where it stands:
\*   "call"     before the call
\*   "device"   at the head of the device loop, n devices to go
\*   "format"   before the assignment to the class's format attribute
\*   "unpack"   in _get_tuple, before component_type.format.unpack_from
\*   "advance"  in _get_tuple, before position += component_type.format.size
\*   "returned", "None", "raised"   after the call
NewThread(kind, d) ==
    [kind |-> kind, d |-> d, pc |-> "call", pos |-> 0, n |-> 0, ch |-> 0,
     device |-> <<>>, sample_number |-> <<>>, value |-> <<>>, info |-> <<>>,
     out |-> <<>>]

InitMT ==
    /\ data = <<>>
    /\ valid = TRUE
    /\ cut = 0
    /\ state = "new"
    /\ timestamp = <<0, 0>>
    /\ framenumber = 0
    /\ components = EmptyDict
    /\ scan = <<>>
    /\ ret = NoCall
    /\ RTAnalogChannel_format = {}
    /\ RTAnalogDeviceSamples_format = {}
    /\ threads \in [Threads -> {NewThread(k, d) : k \in MTKinds, d \in MTPackets}]

\* the thread's locals change, nothing else of the packet model does
Local(t, th) ==
    /\ threads' = [threads EXCEPT ![t] = th]
    /\ UNCHANGED <<data, valid, cut, state, timestamp, framenumber,
                   components, scan, ret>>

\* the format attribute the thread's accessor assigns and _get_tuple reads
FormatOf(kind) ==
    IF kind = ComponentAnalog THEN RTAnalogChannel_format
    ELSE RTAnalogDeviceSamples_format

\* QRTPacket(d), then the wrapper up to the call of the decorated function
MT_Wrapper(t) ==
    LET th == threads[t]
        p == NewPacket(th.d)
        h == GetExact(BaseComponent(th.kind), th.d, p.components[th.kind])
    IN  /\ th.pc = "call"
        /\ UNCHANGED <<RTAnalogChannel_format, RTAnalogDeviceSamples_format>>
        /\ IF p.status # "constructed" THEN Local(t, [th EXCEPT !.pc = "raised"])
           ELSE IF th.kind \notin DOMAIN p.components
           THEN Local(t, [th EXCEPT !.pc = "None"])
           ELSE IF ~h.ok THEN Local(t, [th EXCEPT !.pc = "raised"])
           ELSE Local(t, [th EXCEPT !.pc = "device", !.pos = h.position,
                                    !.info = h.value, !.n = h.value[1]])

\* for _ in range(component_info.device_count): exhausted, return components
MT_Return(t) ==
    LET th == threads[t]
    IN  /\ th.pc = "device"
        /\ th.n <= 0
        /\ UNCHANGED <<RTAnalogChannel_format, RTAnalogDeviceSamples_format>>
        /\ Local(t, [th EXCEPT !.pc = "returned"])

\* the device record (and, in get_analog, the sample number) of the next
\* device
MT_Device(t) ==
    LET th == threads[t]
        dev == GetExact(IF th.kind = ComponentAnalog THEN RTAnalogDevice
                        ELSE RTAnalogDeviceSingle, th.d, th.pos)
        sn == GetExact(RTSampleNumber, th.d, dev.position)
    IN  /\ th.pc = "device"
        /\ th.n > 0
        /\ UNCHANGED <<RTAnalogChannel_format, RTAnalogDeviceSamples_format>>
        /\ IF ~dev.ok THEN Local(t, [th EXCEPT !.pc = "raised"])
           ELSE IF th.kind = ComponentAnalogSingle
           THEN Local(t, [th EXCEPT !.pc = "format", !.pos = dev.position,
                                    !.device = dev.value])
           ELSE IF dev.value[3] <= 0
           THEN Local(t, [th EXCEPT !.pos = dev.position, !.n = @ - 1,
                                    !.device = dev.value])
           ELSE IF ~sn.ok
           THEN Local(t, [th EXCEPT !.pc = "raised", !.pos = dev.position,
                                    !.device = dev.value])
           ELSE Local(t, [th EXCEPT !.pc = "format", !.pos = sn.position,
                                    !.device = dev.value,
                                    !.sample_number = sn.value])

\* RTAnalogChannel.format = struct.Struct("<%df" % device.sample_count)
MT_SetChannelFormat(t) ==
    LET th == threads[t]
    IN  /\ th.pc = "format"
        /\ th.kind = ComponentAnalog
        /\ RTAnalogChannel_format' = {th.device[3]}
        /\ UNCHANGED RTAnalogDeviceSamples_format
        /\ IF th.device[2] > 0
           THEN Local(t, [th EXCEPT !.pc = "unpack", !.ch = th.device[2]])
           ELSE Local(t, [th EXCEPT !.pc = "device", !.n = @ - 1])

\* RTAnalogDeviceSamples.format = struct.Struct("<%df" % device.channel_count)
MT_SetSamplesFormat(t) ==
    LET th == threads[t]
    IN  /\ th.pc = "format"
        /\ th.kind = ComponentAnalogSingle
        /\ UNCHANGED RTAnalogChannel_format
        /\ IF th.device[2] < 0
           THEN /\ UNCHANGED RTAnalogDeviceSamples_format
                /\ Local(t, [th EXCEPT !.pc = "raised"])
           ELSE /\ RTAnalogDeviceSamples_format' = {th.device[2]}
                /\ Local(t, [th EXCEPT !.pc = "unpack"])

\* _get_tuple: value = component_type._make(
\*                 [component_type.format.unpack_from(data, position)])
MT_Unpack(t) ==
    LET th == threads[t]
        g == GetFloats(CHOOSE f \in FormatOf(th.kind) : TRUE, th.d, th.pos)
    IN  /\ th.pc = "unpack"
        /\ UNCHANGED <<RTAnalogChannel_format, RTAnalogDeviceSamples_format>>
        /\ IF ~g.ok THEN Local(t, [th EXCEPT !.pc = "raised"])
           ELSE Local(t, [th EXCEPT !.pc = "advance", !.value = g.value])

\* _get_tuple: position += component_type.format.size; return; the caller
\* appends the record and goes round its loop
MT_Advance(t) ==
    LET th == threads[t]
        size == StructSize(FloatArray(CHOOSE f \in FormatOf(th.kind) : TRUE))
    IN  /\ th.pc = "advance"
        /\ UNCHANGED <<RTAnalogChannel_format, RTAnalogDeviceSamples_format>>
        /\ IF th.kind = ComponentAnalogSingle
           THEN Local(t, [th EXCEPT !.pc = "device", !.pos = @ + size,
                              !.n = @ - 1,
                              !.out = Append(@, <<th.device, th.value>>)])
           ELSE Local(t, [th EXCEPT
                              !.pc = IF th.ch > 1 THEN "unpack" ELSE "device",
                              !.pos = @ + size,
                              !.ch = @ - 1,
                              !.n = IF th.ch > 1 THEN @ ELSE @ - 1,
                              !.out = Append(@, <<th.device, th.sample_number,
                                                  th.value>>)])

NextMT ==
    \E t \in Threads :
        \/ MT_Wrapper(t)
        \/ MT_Return(t)
        \/ MT_Device(t)
        \/ MT_SetChannelFormat(t)
        \/ MT_SetSamplesFormat(t)
        \/ MT_Unpack(t)
        \/ MT_Advance(t)

SpecMT == InitMT /\ [][NextMT]_vars

(***************************************************************************)
(* Properties                                                              *)
(***************************************************************************)
\* an accessor has been called
Called == ret.status # "none"

\* the directory as the buffer lays it out: component_count, and for entry
\* k (from 0) its offset, its size field and its tag
ComponentCount == U32(data, 12)

RECURSIVE EntryAt(_)
EntryAt(k) ==
    IF k = 0 THEN 16 ELSE EntryAt(k - 1) + U32(data, EntryAt(k - 1))

SizeAt(k) == U32(data, EntryAt(k))
TagAt(k) == U32(data, EntryAt(k) + 4)
Entries == 0..(ComponentCount - 1)
LastOf(kind) ==
    CHOOSE k \in Entries :
        TagAt(k) = kind /\ \A j \in Entries : j > k => TagAt(j) # kind

\* C1: a well-formed packet that lost its last byte does not decode: when
\* the constructor accepts it, the accessor of some kind of its directory
\* raises struct.error, so no call sequence over the directory's kinds ends
\* with only results.
C1_TruncatedPacketFails ==
    (valid /\ cut = 1 /\ state = "constructed" /\ ret.status = "ok")
        => \E k \in (DOMAIN components) \cap Accessors :
               Wrapper(components, data, k, {}, ClassFormats).status
                   = "struct.error"

\* C2: the accessor of a kind that is not in the directory returns None,
\* raises nothing and reads no byte of the buffer.
C2_AbsentKindReturnsNone ==
    (Called /\ ret.kind \notin DOMAIN components)
        => (ret.status = "None" /\ ret.bytes = {} /\ ret.payload = <<>>)

\* C2 happens: an accessor was called for an absent kind on a packet whose
\* directory holds other kinds
C2_Witness ==
    /\ Called
    /\ ret.kind \notin DOMAIN components
    /\ Cardinality(DOMAIN components) = 2
    /\ ret.status = "None"

\* what the thread's call gives when nothing else runs
Alone(t) ==
    Wrapper(NewPacket(threads[t].d).components, threads[t].d,
            threads[t].kind, {}, <<{}, {}>>)

Finished(t) == threads[t].pc \in {"returned", "None", "raised"}

\* C3: whatever the interleaving, a thread's accessor call ends as it does
\* when run alone: it returns the same records having advanced to the same
\* offset, and raises only if it raises alone.
C3_ThreadsDecodeAsAlone ==
    \A t \in DOMAIN threads :
        Finished(t) =>
            /\ (threads[t].pc = "returned") = (Alone(t).status = "ok")
            /\ (threads[t].pc = "None") = (Alone(t).status = "None")
            /\ threads[t].pc = "returned" =>
                   /\ threads[t].out = Alone(t).payload
                   /\ threads[t].pos = Alone(t).end

\* C4: entry k of the directory starts at 16 plus the sizes of the entries
\* before it; the directory maps every kind that tags an entry to the offset
\* of the last such entry + 8, and holds no other kind.
C4_DirectoryOffsets ==
    state = "constructed" =>
        /\ scan = [k \in 1..(ComponentCount + 1) |-> EntryAt(k - 1)]
        /\ DOMAIN components = {TagAt(k) : k \in Entries}
        /\ \A kind \in DOMAIN components :
               components[kind] = EntryAt(LastOf(kind)) + 8

\* C4 happens: three entries, two of them of the same kind, the later one
\* in the directory
C4_Witness ==
    /\ state = "constructed"
    /\ ComponentCount = 3
    /\ TagAt(0) = TagAt(1)
    /\ TagAt(0) \in DOMAIN components
    /\ components[TagAt(0)] = EntryAt(1) + 8

\* C5: the constructor fails when a directory entry, or the span of size
\* bytes the entry declares, reaches past the end of the buffer: every
\* entry of a constructed packet lies, with its span, inside the buffer.
C5_DirectorySpansInBuffer ==
    state = "constructed" =>
        \A k \in Entries :
            /\ EntryAt(k) + 8 <= Len(data)
            /\ EntryAt(k) + SizeAt(k) <= Len(data)

\* C6: an accessor reads only bytes of its own component's declared span:
\* with the component's entry at e and its size s, offsets e + 8 .. e + s - 1.
C6_ReadsInsideOwnSpan ==
    (Called /\ ret.kind \in DOMAIN components) =>
        LET e == components[ret.kind] - 8
        IN  ret.bytes \subseteq (e + 8)..(e + U32(data, e) - 1)

\* the latest call was a 2D accessor asked for one camera
Filtered2d ==
    /\ Called
    /\ ret.kind \in {Component2d, Component2dLin}
    /\ ret.kind \in DOMAIN components
    /\ ret.index # {}

\* the same accessor called with index=None
FullDecode == Wrapper(components, data, ret.kind, {}, ClassFormats)

\* C7: the filtered 2D decode ends at the offset the full decode ends at.
C7_FilterKeepsEndOffset ==
    (Filtered2d /\ ret.status = "ok" /\ FullDecode.status = "ok")
        => ret.end = FullDecode.end

\* C8: asked for camera i < camera_count, the 2D accessor returns camera
\* i's marker list, as the full decode gives it, as its only entry.
C8_FilterYieldsCameraOnly ==
    Filtered2d =>
        \A i \in ret.index :
            (FullDecode.status = "ok" /\ i < FullDecode.info[1])
                => /\ ret.status = "ok"
                   /\ ret.payload = <<FullDecode.payload[i + 1]>>

\* the image payloads as image_size lays them out: n images from offset
\* pos on, each a 36-byte header followed by image_size bytes
RECURSIVE ImagesBySize(_, _)
ImagesBySize(n, pos) ==
    IF n <= 0 THEN <<>>
    ELSE LET size == I32(data, pos + 32)
         IN  <<<<UnpackFrom(RTImage, data, pos),
                 SubSeq(data, pos + 36 + 1, pos + 36 + size)>>>>
                 \o ImagesBySize(n - 1, pos + 36 + size)

\* C9: get_image returns, for each image of a well-formed packet, its
\* header and the image_size bytes after it, the next header being read
\* right after those bytes.
C9_ImagePayloadBySize ==
    (Called /\ ret.kind = ComponentImage /\ ret.kind \in DOMAIN components
        /\ valid /\ cut = 0)
        => /\ ret.status = "ok"
           /\ ret.payload
                = ImagesBySize(ret.info[1], components[ComponentImage] + 4)

\* the latest call was get_analog and it returned
AnalogDecoded ==
    /\ Called
    /\ ret.kind = ComponentAnalog
    /\ ret.status = "ok"

\* Offsets of the device records of n devices from offset pos on, and the
\* offset after the last, when a device of sample_count s <= 0 takes 12
\* bytes and one of sample_count s > 0 and channel_count c takes
\* 12 + 4 + c * 4 * s.  -1 stands for an offset that is no offset of a
\* device record in the buffer.
RECURSIVE DevicesByCounts(_, _)
DevicesByCounts(n, pos) ==
    IF n <= 0 THEN <<pos>>
    ELSE IF pos < 0 \/ pos + 12 > Len(data) THEN <<-1>>
    ELSE LET c == I32(data, pos + 4)
             s == I32(data, pos + 8)
         IN  IF s > Len(data) \/ c > Len(data) \/ c < -Len(data)
             THEN <<pos, -1>>
             ELSE <<pos>> \o DevicesByCounts(n - 1,
                      pos + (IF s > 0 THEN 12 + 4 + c * 4 * s ELSE 12))

\* the same with a negative channel_count counting as none
RECURSIVE DevicesByChannels(_, _)
DevicesByChannels(n, pos) ==
    IF n <= 0 THEN <<pos>>
    ELSE IF pos < 0 \/ pos + 12 > Len(data) THEN <<-1>>
    ELSE LET c == I32(data, pos + 4)
             s == I32(data, pos + 8)
         IN  <<pos>> \o DevicesByChannels(n - 1,
                 pos + (IF s > 0
                        THEN 12 + 4 + (IF c > 0 THEN c * 4 * s ELSE 0)
                        ELSE 12))

\* s is a subsequence of t
RECURSIVE IsSubSeq(_, _)
IsSubSeq(s, t) ==
    IF s = <<>> THEN TRUE
    ELSE IF t = <<>> THEN FALSE
    ELSE IF Head(s) = Head(t) THEN IsSubSeq(Tail(s), Tail(t))
    ELSE IsSubSeq(s, Tail(t))

\* C10, as claimed: get_analog reads each device record at the offset the
\* counts of the devices before it give, a device of sample_count 0 taking
\* 12 bytes and one of sample_count s > 0 and channel_count c taking
\* 12 + 4 + c * 4 * s bytes, and ends at the offset after the last device.
C10_AnalogBytesByCounts ==
    AnalogDecoded =>
        LET offs == DevicesByCounts(ret.info[1], components[ComponentAnalog] + 4)
        IN  /\ IsSubSeq(offs, ret.trace)
            /\ ret.end = offs[Len(offs)]

\* C10, amended: as above, a negative channel_count taking the 12 + 4 bytes
\* a channel_count of 0 takes.
C10_AnalogBytesByChannels ==
    AnalogDecoded =>
        LET offs == DevicesByChannels(ret.info[1],
                                      components[ComponentAnalog] + 4)
        IN  /\ IsSubSeq(offs, ret.trace)
            /\ ret.end = offs[Len(offs)]

\* C10 happens: two devices decoded, (1 channel, 2 samples) then
\* (2 channels, 1 sample), 24 bytes each
C10_Witness ==
    /\ AnalogDecoded
    /\ ret.info[1] = 2
    /\ Len(ret.payload) = 3
    /\ ret.payload[1][1][2] = 1
    /\ ret.payload[1][1][3] = 2
    /\ ret.end = components[ComponentAnalog] + 4 + 24 + 24

\* what the caller of an accessor gets, the classes' format attributes being
\* formats: the exception, None, or the pair of the component header and the
\* list of records
Result(kind, index, formats) ==
    LET r == Wrapper(components, data, kind, index, formats)
    IN  <<r.status, r.info, r.payload>>

\* the result of every accessor call the packet offers
Results(formats) ==
    [kind \in Accessors |->
        [index \in IF kind \in {Component2d, Component2dLin}
                   THEN Indexes ELSE {{}} |-> Result(kind, index, formats)]]

\* C11: an accessor call on a constructed packet leaves the result of every
\* accessor call as it was, so a call gives the same whether made before or
\* after any other and after any earlier calls; and it leaves the packet's
\* buffer, header fields and directory as they were.  (The results are
\* compared across the steps that change a format attribute: they depend on
\* the step through these attributes only.)
C11_AccessorsCommute ==
    [][state = "constructed" =>
           /\ ClassFormats' # ClassFormats
                  => Results(ClassFormats') = Results(ClassFormats)
           /\ <<data, timestamp, framenumber, components>>'
                  = <<data, timestamp, framenumber, components>>]_vars

\* C11 happens: get_analog has assigned RTAnalogChannel.format for a device
\* of 2 samples, and the call made after it, get_3d_markers, returned
C11_Witness ==
    /\ RTAnalogChannel_format = {2}
    /\ ret.kind = Component3d
    /\ ret.status = "ok"
    /\ Len(ret.payload) = 1

\* the offsets of s, one per step, never decrease and are never negative
Advancing(s) ==
    /\ \A i \in 1..Len(s) : s[i] >= 0
    /\ \A i \in 1..(Len(s) - 1) : s[i] <= s[i + 1]

\* C12: the offset never decreases and is never negative, neither in the
\* directory scan of the constructor nor in the decode of an accessor call,
\* whether they returned or raised.
C12_OffsetNeverDecreases ==
    /\ Advancing(scan)
    /\ Advancing(ret.trace)

====
